---- MODULE Spec2Model ----
(***************************************************************************)
(* Model of src/main.py: the CourseBot of a Telegram course-data bot.      *)
(*                                                                         *)
(* State of the program:                                                   *)
(*   user_preferences   CourseBot.user_preferences, a dict user -> quality *)
(*   available_courses  CourseBot.available_courses, ONE list per bot      *)
(*   user_data          context.user_data, one dict per user with the keys *)
(*                      available_courses, selected_course_id and          *)
(*                      selected_course_title                              *)
(* what a handler sends back (out, with the index that a course_callback   *)
(* selected) and, as a history of the updates, each user's latest          *)
(* quality_callback (last_set).  For the pure function                     *)
(* get_video_links_by_preference the variables class_data and              *)
(* preferred_quality are its arguments, video_links its result and pc      *)
(* whether it has returned.  For generate_course_text_file the variables   *)
(* course_info, classes_data and preferred_quality are its arguments and   *)
(* text_content its result, the list of the lines of the report.  The      *)
(* handlers are coroutines that the Application runs one update at a time  *)
(* and requests.get blocks, so a handler is one atomic step.               *)
(*                                                                         *)
(* Text that the code compares, lower-cases or sorts (quality labels,      *)
(* URLs) is a sequence of code points, so that str.lower, str.startswith   *)
(* and the ordering of str are computed, not assumed.  Text that is only   *)
(* stored and passed on (course ids and titles) is a TLA+ string.          *)
(***************************************************************************)
EXTENDS Integers, Sequences, FiniteSets, TLC

VARIABLES user_preferences, available_courses, user_data, out, last_set,
          class_data, preferred_quality, video_links, pc,
          course_info, classes_data, text_content

vars == <<user_preferences, available_courses, user_data, out, last_set,
          class_data, preferred_quality, video_links, pc,
          course_info, classes_data, text_content>>

session_vars == <<user_preferences, available_courses, user_data, out, last_set>>
report_vars == <<course_info, classes_data, text_content>>
link_vars == <<class_data, preferred_quality, video_links, pc, report_vars>>

(***************************************************************************)
(* Bounds of the model.                                                    *)
(***************************************************************************)
\* number of courses in the longest catalog the API returns
MaxCatalog == 2
\* number of mp4Recordings of a class
MaxRecordings == 3
\* number of classPdf entries of a class
MaxPdfs == 2
\* number of topics of a course and of classes of a topic
MaxTopics == 2
MaxClasses == 2

Users == {1, 2}

(***************************************************************************)
(* Python values.                                                          *)
(***************************************************************************)
\* a key that is not in a dict (text given as code points)
Missing == <<-1>>
\* a key that is not in a dict (values given as TLA+ strings)
Absent == "<absent>"
\* Python's None
PyNone == "<None>"

\* dict.get(key, default)
Get(value, default) == IF value = Missing THEN default ELSE value

\* str(i) of a natural number
RECURSIVE Decimal(_)
Decimal(i) ==
    LET digit == <<"0", "1", "2", "3", "4", "5", "6", "7", "8", "9">>
    IN  IF i < 10 THEN digit[i + 1]
        ELSE Decimal(i \div 10) \o digit[(i % 10) + 1]

\* dict.get(key, default) of a value given as a TLA+ string
GetStr(value, default) == IF value = Absent THEN default ELSE value

\* bool(x) of a str or None
Truthy(x) == x \notin {PyNone, ""}

\* str.lower() on ASCII text
Lower(s) == [i \in DOMAIN s |-> IF s[i] \in 65..90 THEN s[i] + 32 ELSE s[i]]

\* str.startswith(prefix)
StartsWith(s, prefix) ==
    /\ Len(s) >= Len(prefix)
    /\ SubSeq(s, 1, Len(prefix)) = prefix

\* a < b on str: by code point, a proper prefix first
RECURSIVE StrLess(_, _)
StrLess(a, b) ==
    IF b = <<>> THEN FALSE
    ELSE IF a = <<>> THEN TRUE
    ELSE IF a[1] # b[1] THEN a[1] < b[1]
    ELSE StrLess(Tail(a), Tail(b))

\* "720p", "720P", "480p", "1080p", "240p", "360p", "4k", "all", "ALL"
Q720p == <<55, 50, 48, 112>>
Q720P == <<55, 50, 48, 80>>
Q480p == <<52, 56, 48, 112>>
Q1080p == <<49, 48, 56, 48, 112>>
Q240p == <<50, 52, 48, 112>>
Q360p == <<51, 54, 48, 112>>
Q4k == <<52, 107>>
QAll == <<97, 108, 108>>
\* "Main Link", "Unknown"
MainLink == <<77, 97, 105, 110, 32, 76, 105, 110, 107>>
Unknown == <<85, 110, 107, 110, 111, 119, 110>>
\* "http://", "https://", "ftp://"
Http == <<104, 116, 116, 112, 58, 47, 47>>
Https == <<104, 116, 116, 112, 115, 58, 47, 47>>
Ftp == <<102, 116, 112, 58, 47, 47>>

\* the default of user_preferences.get(user_id, "720p")
DefaultQuality == Q720p

\* the labels of the buttons quality_command offers
CanonicalQualities == {Q240p, Q360p, Q480p, Q720p, Q1080p}

(***************************************************************************)
(* What the API returns.                                                   *)
(***************************************************************************)
\* a course of GET /courses: a dict whose keys id and title may be missing
CourseAt(i) ==
    CASE i % 3 = 1 -> [id |-> "a", title |-> "A"]
      [] i % 3 = 2 -> [id |-> "b", title |-> Absent]
      [] OTHER     -> [id |-> Absent, title |-> "N"]

Catalog(k, n) == [i \in 1..n |-> CourseAt(i + k)]

\* the non-empty course lists the API returns: two, of different lengths
\* and with different courses at every position
Catalogs == {Catalog(0, MaxCatalog), Catalog(2, MaxCatalog - 1)}

\* the outcome of requests.get(".../courses") and response.json():
\* a RequestException ("neterr": no connection, a timeout, an HTTP error
\* status), another exception ("error"), or a dict with state and data
CatalogResponses ==
    {[kind |-> "neterr", state |-> 0, data |-> <<>>],
     [kind |-> "error", state |-> 0, data |-> <<>>],
     [kind |-> "ok", state |-> 500, data |-> <<>>],
     [kind |-> "ok", state |-> 200, data |-> <<>>]}
    \cup {[kind |-> "ok", state |-> 200, data |-> c] : c \in Catalogs}

\* the outcome of requests.get(".../courses/{id}/classes?populate=full"):
\* a RequestException, a ValueError of response.json(), or a dict with
\* state, with or without the key data, whose classes is a list of topics
DetailResponses ==
    {[kind |-> "neterr", state |-> 0, has_data |-> FALSE, classes |-> <<>>],
     [kind |-> "badjson", state |-> 0, has_data |-> FALSE, classes |-> <<>>],
     [kind |-> "ok", state |-> 500, has_data |-> TRUE, classes |-> <<"topic">>],
     [kind |-> "ok", state |-> 200, has_data |-> FALSE, classes |-> <<>>],
     [kind |-> "ok", state |-> 200, has_data |-> TRUE, classes |-> <<>>],
     [kind |-> "ok", state |-> 200, has_data |-> TRUE, classes |-> <<"topic">>]}

\* the text after "quality_" in a callback query: the data of a button of
\* quality_command ("all") and a text that no button sends ("4k"); the
\* handler is registered for every callback data that starts with quality_
QualityData == {QAll, Q4k}

\* the text after "course_" in a callback query: an integer (a button of
\* the current or of an earlier keyboard, or any other number) or not one
CourseData ==
    {[isint |-> TRUE, n |-> i] : i \in (0 - MaxCatalog - 1)..(MaxCatalog + 1)}
    \cup {[isint |-> FALSE, n |-> 0]}

(***************************************************************************)
(* The state after CourseBot.__init__ and before any update.  A user_data   *)
(* without the key available_courses holds <<>>: the code never stores an  *)
(* empty list and reads the key with the default [].                       *)
(***************************************************************************)
NoUserData ==
    [available_courses |-> <<>>,
     selected_course_id |-> Absent, selected_course_title |-> Absent]

NoOut ==
    [op |-> "init", user |-> 0, reply |-> "none", fetched |-> Absent,
     title |-> Absent, quality |-> Missing, document |-> FALSE,
     keyboard |-> <<>>, course_index |-> <<>>]

NoClass == [class_link |-> Missing, mp4Recordings |-> <<>>, has_recordings |-> FALSE]

NoCourse == [title |-> Absent]

Init ==
    /\ user_preferences = [u \in Users |-> Missing]
    /\ available_courses = <<>>
    /\ user_data = [u \in Users |-> NoUserData]
    /\ out = NoOut
    /\ last_set = [u \in Users |-> Missing]
    /\ class_data = NoClass
    /\ preferred_quality = Missing
    /\ video_links = <<>>
    /\ pc = "handlers"
    /\ course_info = NoCourse
    /\ classes_data = <<>>
    /\ text_content = <<>>

\* what a handler that starts no extraction sends
Reply(op, u, reply) ==
    [op |-> op, user |-> u, reply |-> reply, fetched |-> Absent,
     title |-> Absent, quality |-> Missing, document |-> FALSE,
     keyboard |-> <<>>, course_index |-> <<>>]

(***************************************************************************)
(* The handlers that read or write the state (help_command and             *)
(* quality_command only send a fixed text).                                *)
(***************************************************************************)
\* start_command that stores the default without looking for a stored value
start_command_overwrites(u) ==
    /\ user_preferences' = [user_preferences EXCEPT ![u] = DefaultQuality]
    /\ out' = Reply("start", u, "welcome")
    /\ UNCHANGED <<available_courses, user_data, last_set, link_vars>>

start_command(u) ==
    /\ user_preferences' =
         IF user_preferences[u] = Missing
         THEN [user_preferences EXCEPT ![u] = DefaultQuality]
         ELSE user_preferences
    /\ out' = Reply("start", u, "welcome")
    /\ UNCHANGED <<available_courses, user_data, last_set, link_vars>>

handle_text(u) ==
    /\ out' = Reply("text", u, "commands")
    /\ UNCHANGED <<user_preferences, available_courses, user_data, last_set, link_vars>>

\* both branches store the text after "quality_" as it came
quality_callback(u, quality) ==
    /\ user_preferences' = [user_preferences EXCEPT ![u] = quality]
    /\ last_set' = [last_set EXCEPT ![u] = quality]
    /\ out' = Reply("quality", u, "quality_set")
    /\ UNCHANGED <<available_courses, user_data, link_vars>>

\* the buttons of the keyboard: button i has the text "{i}. {course_title}"
\* and the callback data "course_{i-1}"; the titles of the model are
\* shorter than the 64 characters that [:64] keeps
Keyboard(courses) ==
    [i \in 1..Len(courses) |->
        [n |-> i,
         course_title |-> GetStr(courses[i].title, "Batch " \o Decimal(i)),
         course_index |-> i - 1]]

batches_command(u, resp) ==
    LET courses == resp.data
        reply ==
            CASE resp.kind = "neterr" -> "network_error"
              [] resp.kind = "error" -> "error_fetching"
              [] resp.state # 200 -> "api_error"
              [] courses = <<>> -> "no_batches"
              [] OTHER -> "keyboard"
    IN  /\ IF reply = "keyboard"
           THEN /\ available_courses' = courses
                /\ user_data' = [user_data EXCEPT ![u].available_courses = courses]
           ELSE UNCHANGED <<available_courses, user_data>>
        /\ out' = [Reply("batches", u, reply) EXCEPT
               !.keyboard = IF reply = "keyboard" THEN Keyboard(courses) ELSE <<>>]
        /\ UNCHANGED <<user_preferences, last_set, link_vars>>

\* fetch_course_data: what it fetches and sends.  pq_arg is Missing for the
\* default None of preferred_quality.  has_message is whether update.message
\* is a message: it is one for a command and None for a callback query,
\* where every update.message.reply_text or reply_document raises
\* AttributeError; raised in the try block (lines 223-256) it reaches the
\* last handler, whose own update.message.reply_text (line 266) raises again,
\* and raised in a handler (lines 260, 263) it leaves the function.
fetch_course_data(u, course_id, course_title, pq_arg, resp, has_message) ==
    LET pq == IF pq_arg = Missing
              THEN Get(user_preferences[u], DefaultQuality)
              ELSE pq_arg
        reply ==
            CASE resp.kind = "neterr" -> "network_error"
              [] resp.kind = "badjson" -> "format_error"
              [] resp.state # 200 -> "api_error"
              [] ~resp.has_data -> "unexpected_format"
              [] resp.classes = <<>> -> "no_class_data"
              [] OTHER -> "file_generated"
    IN  [op |-> "fetch", user |-> u,
         reply |-> IF has_message THEN reply ELSE "raise",
         fetched |-> course_id, title |-> course_title, quality |-> pq,
         document |-> has_message /\ reply = "file_generated",
         keyboard |-> <<>>, course_index |-> <<>>]

\* the list of the bot instead of the list of the user
CoursesOf_of_bot(u) == available_courses

\* context.user_data.get('available_courses', [])
CoursesOf(u) == user_data[u].available_courses

\* courses[course_index] of a Python list: a negative index counts from the
\* end, an index outside -len .. len-1 raises IndexError
InList(courses, course_index) ==
    /\ course_index < Len(courses)
    /\ course_index >= 0 - Len(courses)

\* the index taken as a position that counts from 1
ListItem_from_one(courses, course_index) ==
    IF course_index >= 1
    THEN courses[course_index]
    ELSE courses[Len(courses)]

ListItem(courses, course_index) ==
    IF course_index >= 0
    THEN courses[course_index + 1]
    ELSE courses[Len(courses) + course_index + 1]

course_callback(u, data, resp) ==
    LET courses == CoursesOf(u)
        course_index == data.n
    IN  IF ~data.isint
        THEN \* int() raises ValueError
             /\ out' = Reply("course", u, "error_selecting")
             /\ UNCHANGED <<user_preferences, available_courses, user_data,
                            last_set, link_vars>>
        ELSE IF courses = <<>> \/ course_index >= Len(courses)
        THEN /\ out' = Reply("course", u, "not_found")
             /\ UNCHANGED <<user_preferences, available_courses, user_data,
                            last_set, link_vars>>
        ELSE IF ~InList(courses, course_index)
        THEN \* courses[course_index] raises IndexError
             /\ out' = Reply("course", u, "error_selecting")
             /\ UNCHANGED <<user_preferences, available_courses, user_data,
                            last_set, link_vars>>
        ELSE LET selected_course == ListItem(courses, course_index)
                 course_id == IF selected_course.id = Absent
                              THEN PyNone ELSE selected_course.id
                 course_title == IF selected_course.title = Absent
                                 THEN "Unknown Course" ELSE selected_course.title
                 sent == fetch_course_data(u, course_id, course_title, Missing,
                                           resp, FALSE)
             IN  /\ user_data' = [user_data EXCEPT
                        ![u].selected_course_id = course_id,
                        ![u].selected_course_title = course_title]
                 /\ out' = [sent EXCEPT
                        !.op = "course",
                        !.course_index = <<course_index>>,
                        !.reply = IF sent.reply = "raise"
                                  THEN "error_selecting" ELSE sent.reply]
                 /\ UNCHANGED <<user_preferences, available_courses,
                                last_set, link_vars>>

\* get_course_command that ends the session once the file is sent
get_course_command_clears(u, resp) ==
    LET preferred == Get(user_preferences[u], DefaultQuality)
        course_id == IF user_data[u].selected_course_id = Absent
                     THEN PyNone ELSE user_data[u].selected_course_id
        course_title == IF user_data[u].selected_course_title = Absent
                        THEN "Unknown Course"
                        ELSE user_data[u].selected_course_title
        sent == fetch_course_data(u, course_id, course_title, preferred, resp, TRUE)
    IN  /\ out' = IF ~Truthy(course_id)
                  THEN Reply("get_course", u, "no_course_selected")
                  ELSE [sent EXCEPT !.op = "get_course"]
        /\ user_data' = IF Truthy(course_id) /\ sent.document
                        THEN [user_data EXCEPT ![u] = NoUserData]
                        ELSE user_data
        /\ UNCHANGED <<user_preferences, available_courses, last_set, link_vars>>

\* get_course_command that stores the quality it read
get_course_command_stores(u, resp) ==
    LET preferred == Get(user_preferences[u], DefaultQuality)
        course_id == IF user_data[u].selected_course_id = Absent
                     THEN PyNone ELSE user_data[u].selected_course_id
        course_title == IF user_data[u].selected_course_title = Absent
                        THEN "Unknown Course"
                        ELSE user_data[u].selected_course_title
    IN  /\ out' = IF ~Truthy(course_id)
                  THEN Reply("get_course", u, "no_course_selected")
                  ELSE [fetch_course_data(u, course_id, course_title, preferred,
                                          resp, TRUE) EXCEPT !.op = "get_course"]
        /\ user_preferences' = [user_preferences EXCEPT ![u] = preferred]
        /\ UNCHANGED <<available_courses, user_data, last_set, link_vars>>

get_course_command(u, resp) ==
    LET preferred == Get(user_preferences[u], DefaultQuality)
        course_id == IF user_data[u].selected_course_id = Absent
                     THEN PyNone ELSE user_data[u].selected_course_id
        course_title == IF user_data[u].selected_course_title = Absent
                        THEN "Unknown Course"
                        ELSE user_data[u].selected_course_title
    IN  /\ out' = IF ~Truthy(course_id)
                  THEN Reply("get_course", u, "no_course_selected")
                  ELSE [fetch_course_data(u, course_id, course_title, preferred,
                                          resp, TRUE) EXCEPT !.op = "get_course"]
        /\ UNCHANGED <<user_preferences, available_courses, user_data,
                       last_set, link_vars>>

\* the responses a course_callback is run with, a network error and a
\* payload with topics: update.message is None on every path of its
\* fetch_course_data, so its step is the same for every response
CallbackResponses ==
    {resp \in DetailResponses :
        resp.kind = "neterr" \/ (resp.state = 200 /\ resp.classes # <<>>)}

Next ==
    \/ \E u \in Users : start_command(u)
    \/ \E u \in Users : handle_text(u)
    \/ \E u \in Users, quality \in QualityData : quality_callback(u, quality)
    \/ \E u \in Users, resp \in CatalogResponses : batches_command(u, resp)
    \/ \E u \in Users, data \in CourseData, resp \in CallbackResponses :
          course_callback(u, data, resp)
    \/ \E u \in Users, resp \in DetailResponses : get_course_command(u, resp)

Spec == Init /\ [][Next]_vars

(***************************************************************************)
(* The states of a user's session.                                         *)
(***************************************************************************)
Idle(u) == user_data[u] = NoUserData

CatalogHeld(u) ==
    /\ user_data[u].available_courses # <<>>
    /\ user_data[u].selected_course_id = Absent
    /\ user_data[u].selected_course_title = Absent

CourseSelected(u) == user_data[u].selected_course_id # Absent

(***************************************************************************)
(* Properties of the handlers.                                             *)
(***************************************************************************)
\* C1 (as claimed): a selection of an internal index outside 0 .. N-1 by a
\* user who holds a catalog of N courses is rejected: it starts no
\* extraction and leaves the user's session as it was.
C1_OutOfRangeRejected ==
    [][\A u \in Users, data \in CourseData, resp \in DetailResponses :
          (/\ course_callback(u, data, resp)
           /\ data.isint
           /\ user_data[u].available_courses # <<>>
           /\ data.n \notin 0..(Len(user_data[u].available_courses) - 1))
          => /\ user_data' = user_data
             /\ out'.fetched = Absent
             /\ out'.reply \in {"not_found", "error_selecting"}]_vars

C3_LoadDiscardsSelection ==
    (out.op = "batches" /\ out.reply = "keyboard") => CatalogHeld(out.user)

\* C4: a course_callback of a user who holds no catalog is refused whatever
\* its data, starts no extraction and leaves every session as it was: the
\* user's session stays Idle, with no selected course.
C4_IdleSelectionFails ==
    [][(out'.op = "course" /\ user_data[out'.user].available_courses = <<>>) =>
          /\ out'.reply \in {"not_found", "error_selecting"}
          /\ out'.fetched = Absent
          /\ ~out'.document
          /\ user_data' = user_data
          /\ user_data'[out'.user] = NoUserData]_vars

\* C4: a user without a catalog and without a selection got "not found"
\* while the bot holds the list of another user
C4_Witness ==
    /\ out.op = "course"
    /\ out.reply = "not_found"
    /\ Idle(out.user)
    /\ available_courses # <<>>

\* C5 (as claimed): no handler writes state that the users share, and a
\* handler run for one user leaves the session and the preference of every
\* other user as they were.
C5_NoSharedState ==
    [][/\ available_courses' = available_courses
       /\ \A v \in Users : v # out'.user =>
             /\ user_data'[v] = user_data[v]
             /\ user_preferences'[v] = user_preferences[v]]_vars

\* C6: batches_command, course_callback and get_course_command, with the
\* extraction they run, leave every stored preference as it was.
C6_SessionKeepsPreference ==
    [][out'.op \in {"batches", "course", "get_course"} =>
          user_preferences' = user_preferences]_vars

\* C6: an extraction ran for a user without a stored preference
C6_Witness ==
    /\ out.op = "get_course"
    /\ out.document
    /\ user_preferences[out.user] = Missing

\* C7: the quality an extraction uses is the one of the user's latest
\* quality_callback, and "720p" if there was none.
C7_ExtractionUsesLatest ==
    out.quality # Missing =>
        out.quality = IF last_set[out.user] = Missing
                      THEN Q720p ELSE last_set[out.user]

\* C7: an extraction by get_course used the quality of a quality_callback
C7_Witness ==
    /\ out.op = "get_course"
    /\ out.document
    /\ out.quality = Q4k
    /\ last_set[out.user] = Q4k

\* C8 (as claimed): every stored preference is one of 240p, 360p, 480p,
\* 720p, 1080p or "all".
C8_PreferenceCanonical ==
    \A u \in Users :
        user_preferences[u] # Missing =>
            user_preferences[u] \in CanonicalQualities \cup {QAll}

(***************************************************************************)
(* get_video_links_by_preference.                                          *)
(***************************************************************************)
\* the test of the url without startswith
ValidUrl_truthy(url) ==
    /\ url # Missing
    /\ url # <<>>

\* url and url.startswith(('http://', 'https://'))
ValidUrl(url) ==
    /\ url # Missing
    /\ url # <<>>
    /\ StartsWith(url, Http) \/ StartsWith(url, Https)

\* the comparison without lower()
IsPreferred_exact(quality, preferred) ==
    /\ preferred # QAll
    /\ quality = preferred

\* preferred_quality != "all" and quality.lower() == preferred_quality.lower()
IsPreferred(quality, preferred) ==
    /\ preferred # QAll
    /\ Lower(quality) = Lower(preferred)

\* the entry of the class_link, if it is a link
MainEntry(class) ==
    IF ValidUrl(class.class_link)
    THEN <<[url |-> class.class_link, quality |-> MainLink, is_preferred |-> FALSE]>>
    ELSE <<>>

\* the loop over mp4_recordings
RECURSIVE RecordingEntries(_, _)
RecordingEntries(mp4_recordings, preferred) ==
    IF mp4_recordings = <<>> THEN <<>>
    ELSE LET recording == Head(mp4_recordings)
             quality == Get(recording.quality, Unknown)
         IN  (IF ValidUrl(recording.url)
              THEN <<[url |-> recording.url, quality |-> quality,
                      is_preferred |-> IsPreferred(quality, preferred)]>>
              ELSE <<>>)
             \o RecordingEntries(Tail(mp4_recordings), preferred)

\* the key without the quality
KeyLess_preferred_only(a, b) == a.is_preferred /\ ~b.is_preferred

\* key(a) < key(b) for the key (not x["is_preferred"], x["quality"])
KeyLess(a, b) ==
    \/ a.is_preferred /\ ~b.is_preferred
    \/ a.is_preferred = b.is_preferred /\ StrLess(a.quality, b.quality)

\* an insertion that keeps one entry for each key
RECURSIVE InsertLink_one_per_key(_, _)
InsertLink_one_per_key(x, sorted) ==
    IF sorted = <<>> THEN <<x>>
    ELSE IF KeyLess(x, Head(sorted)) THEN <<x>> \o sorted
    ELSE IF KeyLess(Head(sorted), x)
         THEN <<Head(sorted)>> \o InsertLink_one_per_key(x, Tail(sorted))
    ELSE sorted

\* list.sort is stable: an entry comes after the entries before it in the
\* list whose key is not greater
RECURSIVE InsertLink(_, _)
InsertLink(x, sorted) ==
    IF sorted = <<>> THEN <<x>>
    ELSE IF KeyLess(x, Head(sorted)) THEN <<x>> \o sorted
    ELSE <<Head(sorted)>> \o InsertLink(x, Tail(sorted))

RECURSIVE SortLinks(_)
SortLinks(links) ==
    IF links = <<>> THEN <<>>
    ELSE InsertLink(links[Len(links)], SortLinks(SubSeq(links, 1, Len(links) - 1)))

\* the sort without its condition
get_video_links_by_preference_sorts(class, preferred) ==
    SortLinks(MainEntry(class) \o RecordingEntries(class.mp4Recordings, preferred))

get_video_links_by_preference(class, preferred) ==
    LET emitted == MainEntry(class)
                   \o RecordingEntries(class.mp4Recordings, preferred)
    IN  IF preferred # QAll THEN SortLinks(emitted) ELSE emitted

(***************************************************************************)
(* The arguments of get_video_links_by_preference.                         *)
(***************************************************************************)
\* "http://x/<i>" and "ftp://x/<i>", the URLs of the i-th recording
UrlOf(scheme, i) == scheme \o <<120, 47, 48 + i>>

\* the i-th recording of a class: its url a link, not a link or missing,
\* its quality one of three labels or missing
RecordingInputs(i) ==
    [url : {UrlOf(Http, i), UrlOf(Ftp, i), Missing},
     quality : {Q720p, Q720P, Q480p, Missing}]

\* the lists of n recordings
RECURSIVE RecordingListsOf(_)
RecordingListsOf(n) ==
    IF n = 0 THEN {<<>>}
    ELSE {Append(l, r) : l \in RecordingListsOf(n - 1), r \in RecordingInputs(n)}

RecordingLists == UNION {RecordingListsOf(n) : n \in 0..MaxRecordings}

\* "https://m" and "ftp://m"
MainLinkInputs == {Missing, Https \o <<109>>, Ftp \o <<109>>}

ClassInputs ==
    {[class_link |-> l, mp4Recordings |-> r, has_recordings |-> TRUE] :
        l \in MainLinkInputs, r \in RecordingLists}
    \cup {[class_link |-> l, mp4Recordings |-> <<>>, has_recordings |-> FALSE] :
        l \in MainLinkInputs}

\* "720p", "all", "4k" and "main link"
PreferenceInputs == {Q720p, QAll, Q4k, Lower(MainLink)}

InitLinks ==
    /\ user_preferences = [u \in Users |-> Missing]
    /\ available_courses = <<>>
    /\ user_data = [u \in Users |-> NoUserData]
    /\ out = NoOut
    /\ last_set = [u \in Users |-> Missing]
    /\ class_data \in ClassInputs
    /\ preferred_quality \in PreferenceInputs
    /\ video_links = <<>>
    /\ pc = "call"
    /\ course_info = NoCourse
    /\ classes_data = <<>>
    /\ text_content = <<>>

select_links ==
    /\ pc = "call"
    /\ video_links' = get_video_links_by_preference(class_data, preferred_quality)
    /\ pc' = "returned"
    /\ UNCHANGED <<session_vars, class_data, preferred_quality, report_vars>>

NextLinks == select_links

SpecLinks == InitLinks /\ [][NextLinks]_vars

(***************************************************************************)
(* Properties of get_video_links_by_preference.                            *)
(***************************************************************************)
\* the position in mp4Recordings of the recording an entry was made from
\* (the URL of the i-th recording ends in the digit i)
Src(entry) == entry.url[Len(entry.url)] - 48

\* the positions of the recordings whose url is a link
ValidRecordings ==
    {i \in 1..Len(class_data.mp4Recordings) :
        ValidUrl(class_data.mp4Recordings[i].url)}

\* those whose quality is the preference, whatever the case of the letters
MatchingRecordings ==
    {i \in ValidRecordings :
        Lower(Get(class_data.mp4Recordings[i].quality, Unknown))
            = Lower(preferred_quality)}

\* entry k of the result is made from a recording of the set, with the
\* url and the quality of that recording
EntryOf(k, recordings) ==
    /\ Src(video_links[k]) \in recordings
    /\ video_links[k].url = class_data.mp4Recordings[Src(video_links[k])].url
    /\ video_links[k].quality =
           Get(class_data.mp4Recordings[Src(video_links[k])].quality, Unknown)

\* the result is the matching recordings, preferred, then the other valid
\* recordings, not preferred, each recording once
PreferredThenOthers ==
    LET n == Cardinality(MatchingRecordings)
        m == Cardinality(ValidRecordings)
    IN  /\ Len(video_links) = m
        /\ \A k \in 1..n :
              video_links[k].is_preferred /\ EntryOf(k, MatchingRecordings)
        /\ \A k \in (n + 1)..m :
              /\ ~video_links[k].is_preferred
              /\ EntryOf(k, ValidRecordings \ MatchingRecordings)
        /\ \A j, k \in 1..m : j # k => Src(video_links[j]) # Src(video_links[k])

\* C9 (as claimed): for a preference other than "all" and a class without
\* class_link the result is the matching recordings, preferred and in their
\* original relative order, then the other valid recordings, not preferred.
C9_PreferredInOriginalOrder ==
    (pc = "returned" /\ preferred_quality # QAll /\ class_data.class_link = Missing)
    => /\ PreferredThenOthers
       /\ \A j, k \in 1..Cardinality(MatchingRecordings) :
             j < k => Src(video_links[j]) < Src(video_links[k])

\* C9 (amended): ... the matching recordings, preferred and in the order of
\* their quality labels as written (by code point: "720P" before "720p"),
\* those with the same label in their original relative order, then the
\* other valid recordings, not preferred.
C9_PreferredByLabel ==
    (pc = "returned" /\ preferred_quality # QAll /\ class_data.class_link = Missing)
    => /\ PreferredThenOthers
       /\ \A j, k \in 1..Cardinality(MatchingRecordings) :
             j < k =>
                \/ StrLess(video_links[j].quality, video_links[k].quality)
                \/ /\ video_links[j].quality = video_links[k].quality
                   /\ Src(video_links[j]) < Src(video_links[k])

\* C9: for "720p", a later "720P" recording is returned before an earlier
\* "720p" one, both preferred, and a "480p" one after them
C9_Witness ==
    /\ pc = "returned"
    /\ preferred_quality = Q720p
    /\ class_data.class_link = Missing
    /\ Len(video_links) = 3
    /\ video_links[1].quality = Q720P /\ video_links[1].is_preferred
    /\ video_links[2].quality = Q720p /\ video_links[2].is_preferred
    /\ Src(video_links[1]) > Src(video_links[2])
    /\ video_links[3].quality = Q480p /\ ~video_links[3].is_preferred

\* C10: for "all" the result is the class_link, if it is a link, then the
\* recordings whose url is a link in the order of mp4Recordings, and no
\* entry is preferred.
C10_AllInEmissionOrder ==
    (pc = "returned" /\ preferred_quality = QAll)
    => LET main == IF ValidUrl(class_data.class_link) THEN 1 ELSE 0
           m == Cardinality(ValidRecordings)
       IN  /\ Len(video_links) = main + m
           /\ main = 1 =>
                 video_links[1] = [url |-> class_data.class_link,
                                   quality |-> MainLink, is_preferred |-> FALSE]
           /\ \A k \in (main + 1)..(main + m) :
                 /\ ~video_links[k].is_preferred
                 /\ EntryOf(k, ValidRecordings)
           /\ \A j, k \in (main + 1)..(main + m) :
                 j < k => Src(video_links[j]) < Src(video_links[k])

\* C10: for "all", the class_link, a "720p" and a "480p" recording are
\* returned in this order, which is not the order of their labels
C10_Witness ==
    /\ pc = "returned"
    /\ preferred_quality = QAll
    /\ Len(video_links) = 3
    /\ video_links[1].quality = MainLink
    /\ video_links[2].quality = Q720p
    /\ video_links[3].quality = Q480p

\* the entry made from class_link
IsMain(entry) == entry.url = class_data.class_link

\* the place of an entry in the order of emission: the class_link first,
\* then the recordings in the order of mp4Recordings
Emission(entry) == IF IsMain(entry) THEN 0 ELSE Src(entry)

\* the keys (not is_preferred, quality) of two entries are in ascending
\* order: False before True, then the labels by code point
KeyAscending(a, b) ==
    \/ a.is_preferred /\ ~b.is_preferred
    \/ a.is_preferred = b.is_preferred /\ StrLess(a.quality, b.quality)

\* C16: an entry is preferred exactly if the preference is not "all" and
\* the entry is made from a recording whose quality is the preference but
\* for the case of letters; the entry of the class_link, labelled
\* "Main Link", is never preferred; and for a preference other than "all"
\* the entries are in ascending order of the key (not is_preferred,
\* quality), those with equal keys in the order of emission, so that the
\* entries that are not preferred, "Main Link" among them, are in the order
\* of their labels.
C16_PreferredAndKeyOrder ==
    pc = "returned" =>
        /\ \A k \in 1..Len(video_links) :
              /\ IsMain(video_links[k]) =>
                    /\ video_links[k].quality = MainLink
                    /\ ~video_links[k].is_preferred
              /\ ~IsMain(video_links[k]) => EntryOf(k, ValidRecordings)
              /\ video_links[k].is_preferred <=>
                    /\ preferred_quality # QAll
                    /\ ~IsMain(video_links[k])
                    /\ Lower(video_links[k].quality) = Lower(preferred_quality)
        /\ preferred_quality # QAll =>
              \A j, k \in 1..Len(video_links) :
                  j < k =>
                      \/ KeyAscending(video_links[j], video_links[k])
                      \/ /\ video_links[j].is_preferred = video_links[k].is_preferred
                         /\ video_links[j].quality = video_links[k].quality
                         /\ Emission(video_links[j]) < Emission(video_links[k])

\* C16: for "720p" the result is the "720p" recording, preferred, then
\* "480p", "Main Link" and "Unknown", not preferred, the recordings being
\* emitted after the class_link and "Unknown" before "480p"
C16_Witness ==
    /\ pc = "returned"
    /\ preferred_quality = Q720p
    /\ Len(video_links) = 4
    /\ video_links[1].quality = Q720p /\ video_links[1].is_preferred
    /\ video_links[2].quality = Q480p /\ ~video_links[2].is_preferred
    /\ IsMain(video_links[3]) /\ ~video_links[3].is_preferred
    /\ video_links[4].quality = Unknown /\ ~video_links[4].is_preferred
    /\ Src(video_links[4]) < Src(video_links[2])

\* C16: for "main link" the result holds the entry of the class_link, not
\* preferred, although its label is the preference but for the case
C16_MainLinkNotPreferred ==
    /\ pc = "returned"
    /\ preferred_quality = Lower(MainLink)
    /\ \E k \in 1..Len(video_links) :
          /\ IsMain(video_links[k])
          /\ Lower(video_links[k].quality) = Lower(preferred_quality)
          /\ ~video_links[k].is_preferred

(***************************************************************************)
(* generate_course_text_file.  The report is the list `lines` that the     *)
(* function joins with "\n".  A line is a record of the format it is made  *)
(* with (kind) and of the values put into the format: a number (n: the     *)
(* index of a class or of a PDF, the length of a rule, the indentation of  *)
(* a link), a text (a title, a name, the mark of a link), a url and a      *)
(* quality label.  The first line holds the time of the call, which is no  *)
(* argument of the function and is left out of the record.                 *)
(***************************************************************************)
Line(kind, n, text, url, quality) ==
    [kind |-> kind, n |-> n, text |-> text, url |-> url, quality |-> quality]

\* lines.append("")
Blank == Line("", 0, "", <<>>, <<>>)
\* "=" * 50 and "-" * 30
Rule(char, n) == Line(char, n, "", <<>>, <<>>)

\* str.upper() on ASCII text
Upper(s) == [i \in DOMAIN s |-> IF s[i] \in 97..122 THEN s[i] - 32 ELSE s[i]]

\* the first five lines
HeaderLines(info, preferred) ==
    <<Line("extracted", 0, "", <<>>, <<>>),
      Line("source", 0, GetStr(info.title, "Unknown Course"), <<>>, <<>>),
      Line("preference", 0, "", <<>>, Upper(preferred)),
      Rule("=", 50),
      Blank>>

\* "{indent}{mark} {url} (Quality: {quality})"; the marks are U+2713, here
\* "check", and U+2022, here "bullet"
LinkLine(indent, mark, link) == Line("link", indent, mark, link.url, link.quality)

\* the lines of one of the two groups
GroupLines(links, preferred_group) ==
    LET InGroup(link) == link.is_preferred = preferred_group
        group == SelectSeq(links, InGroup)
    IN  [i \in 1..Len(group) |->
            LinkLine(4, IF preferred_group THEN "check" ELSE "bullet", group[i])]

\* the else branch: one line per link, in the order of the list
FlatLines(links) ==
    [i \in 1..Len(links) |->
        LinkLine(2, IF links[i].is_preferred THEN "check" ELSE "bullet", links[i])]

\* any(link["is_preferred"] for link in video_links)
PreferredFound(links) == \E i \in 1..Len(links) : links[i].is_preferred

\* the block with the two groups for every preference but "all"
VideoLines_without_found(links, preferred) ==
    IF links = <<>> THEN <<>>
    ELSE <<Line("videos", 0, "", <<>>, <<>>)>>
         \o (IF preferred # QAll
             THEN <<Line("preferred_header", 0, "", <<>>, Upper(preferred))>>
                  \o GroupLines(links, TRUE)
                  \o <<Blank, Line("other_header", 0, "", <<>>, <<>>)>>
                  \o GroupLines(links, FALSE)
             ELSE FlatLines(links))
         \o <<Blank>>

\* the block under `if video_links:`
VideoLines(links, preferred) ==
    IF links = <<>> THEN <<>>
    ELSE <<Line("videos", 0, "", <<>>, <<>>)>>
         \o (IF preferred # QAll /\ PreferredFound(links)
             THEN <<Line("preferred_header", 0, "", <<>>, Upper(preferred))>>
                  \o GroupLines(links, TRUE)
                  \o <<Blank, Line("other_header", 0, "", <<>>, <<>>)>>
                  \o GroupLines(links, FALSE)
             ELSE FlatLines(links))
         \o <<Blank>>

\* the loop over class_pdfs that fills pdf_links
RECURSIVE PdfLinks(_)
PdfLinks(class_pdfs) ==
    IF class_pdfs = <<>> THEN <<>>
    ELSE LET pdf == Head(class_pdfs)
         IN  (IF ValidUrl(pdf.url)
              THEN <<[url |-> pdf.url, name |-> GetStr(pdf.name, "Unknown PDF")]>>
              ELSE <<>>)
             \o PdfLinks(Tail(class_pdfs))

\* the PDF block without `if pdf_links:`
PdfLines_unguarded(pdf_links) ==
    <<Line("pdfs", 0, "", <<>>, <<>>)>>
    \o [i \in 1..Len(pdf_links) |->
           Line("pdf", i, pdf_links[i].name, pdf_links[i].url, <<>>)]
    \o <<Blank>>

\* the block under `if pdf_links:`
PdfLines(pdf_links) ==
    IF pdf_links = <<>> THEN <<>>
    ELSE <<Line("pdfs", 0, "", <<>>, <<>>)>>
         \o [i \in 1..Len(pdf_links) |->
                Line("pdf", i, pdf_links[i].name, pdf_links[i].url, <<>>)]
         \o <<Blank>>

\* the body of the loop over topic_classes
ClassLines(class, class_index, preferred) ==
    <<Line("class", class_index,
           GetStr(class.title, "Class " \o Decimal(class_index)), <<>>, <<>>)>>
    \o (IF GetStr(class.description, "") # ""
        THEN <<Line("description", 0, class.description, <<>>, <<>>)>>
        ELSE <<>>)
    \o <<Line("teacher", 0, GetStr(class.teacherName, "Unknown Teacher"), <<>>, <<>>),
         Blank>>
    \o VideoLines(get_video_links_by_preference(class, preferred), preferred)
    \o PdfLines(PdfLinks(class.classPdf))
    \o <<Rule("=", 50), Blank>>

\* the loop over topic_classes, from the class with index class_index on
RECURSIVE ClassesLines(_, _, _)
ClassesLines(topic_classes, class_index, preferred) ==
    IF class_index > Len(topic_classes) THEN <<>>
    ELSE ClassLines(topic_classes[class_index], class_index, preferred)
         \o ClassesLines(topic_classes, class_index + 1, preferred)

\* the body of the loop over classes_data
TopicLines(topic, topic_index, preferred) ==
    <<Line("topic", 0, GetStr(topic.topicName, "Topic " \o Decimal(topic_index)),
           <<>>, <<>>),
      Rule("-", 30),
      Blank>>
    \o ClassesLines(topic.classes, 1, preferred)

\* the loop over classes_data, from the topic with index topic_index on
RECURSIVE TopicsLines(_, _, _)
TopicsLines(topics, topic_index, preferred) ==
    IF topic_index > Len(topics) THEN <<>>
    ELSE TopicLines(topics[topic_index], topic_index, preferred)
         \o TopicsLines(topics, topic_index + 1, preferred)

generate_course_text_file(info, topics, preferred) ==
    HeaderLines(info, preferred) \o TopicsLines(topics, 1, preferred)

(***************************************************************************)
(* The arguments of generate_course_text_file: the course and the topics   *)
(* of a payload that fetch_course_data passes on (a list of topics that is *)
(* not empty) and a preference.  A class is a dict whose keys may be       *)
(* missing; a missing list is <<>> with has_recordings or has_pdfs FALSE.  *)
(***************************************************************************)
\* a class with a title and a teacher, the links and recordings of class c
WithText(c, class_pdfs, has_pdfs) ==
    [title |-> "Lesson", description |-> Absent, teacherName |-> "T",
     class_link |-> c.class_link, mp4Recordings |-> c.mp4Recordings,
     has_recordings |-> c.has_recordings,
     classPdf |-> class_pdfs, has_pdfs |-> has_pdfs]

\* "https://p/<i>" and "ftp://p/<i>", the URLs of the i-th PDF
PdfUrlOf(scheme, i) == scheme \o <<112, 47, 48 + i>>

\* the i-th PDF of a class: its url a link, not a link, empty or missing,
\* with or without a name
PdfInputs(i) ==
    [url : {PdfUrlOf(Https, i), PdfUrlOf(Ftp, i), <<>>, Missing},
     name : {"Notes", Absent}]

RECURSIVE PdfListsOf(_)
PdfListsOf(n) ==
    IF n = 0 THEN {<<>>}
    ELSE {Append(l, r) : l \in PdfListsOf(n - 1), r \in PdfInputs(n)}

PdfLists == UNION {PdfListsOf(n) : n \in 0..MaxPdfs}

\* a class with one recording and no class_link
OneRecording ==
    [class_link |-> Missing,
     mp4Recordings |-> <<[url |-> UrlOf(Http, 1), quality |-> Q720p]>>,
     has_recordings |-> TRUE]

\* class j of a topic: title, description (also empty), teacherName,
\* class_link and mp4Recordings are there or missing in a pattern p
ClassAt(j, p) ==
    [title |-> IF (j + p) % 2 = 0 THEN "Lesson" ELSE Absent,
     description |-> CASE (j + p) % 3 = 0 -> "About"
                       [] (j + p) % 3 = 1 -> ""
                       [] OTHER -> Absent,
     teacherName |-> IF ((j + p) \div 2) % 2 = 0 THEN "T" ELSE Absent,
     class_link |-> IF (j + p) % 2 = 1 THEN Https \o <<109>> ELSE Missing,
     mp4Recordings |-> IF (j + p) % 3 = 2 THEN <<>>
                       ELSE OneRecording.mp4Recordings,
     has_recordings |-> (j + p) % 3 # 2,
     classPdf |-> <<>>, has_pdfs |-> FALSE]

\* topic i of a course, with k classes: the name is there or missing, and
\* so is the key classes of a topic without classes
TopicAt(i, k, p) ==
    [topicName |-> IF (i + p) % 2 = 0 THEN "Intro" ELSE Absent,
     classes |-> [j \in 1..k |-> ClassAt(j, p)],
     has_classes |-> k > 0 \/ p % 2 = 0]

\* courses of 1..MaxTopics topics with 0..MaxClasses classes each
StructureInputs ==
    {[i \in 1..n |-> TopicAt(i, k, p)] :
        n \in 1..MaxTopics, k \in 0..MaxClasses, p \in 0..5}

\* a course of one topic with one class
OneClass(c) == <<[topicName |-> "Intro", classes |-> <<c>>, has_classes |-> TRUE]>>

CourseInputs == {[title |-> "A"], NoCourse}

InitReport ==
    /\ user_preferences = [u \in Users |-> Missing]
    /\ available_courses = <<>>
    /\ user_data = [u \in Users |-> NoUserData]
    /\ out = NoOut
    /\ last_set = [u \in Users |-> Missing]
    /\ class_data = NoClass
    /\ video_links = <<>>
    /\ preferred_quality \in PreferenceInputs
    \* a course of several topics and classes, or a course of one class
    \* whose links vary (without classPdf), or of one class whose PDFs vary
    \* (without links or with one recording)
    /\ \/ course_info \in CourseInputs /\ classes_data \in StructureInputs
       \/ /\ course_info = NoCourse
          /\ \E c \in ClassInputs :
                classes_data = OneClass(WithText(c, <<>>, FALSE))
       \/ /\ course_info = NoCourse
          /\ \E c \in {NoClass, OneRecording}, class_pdfs \in PdfLists :
                classes_data = OneClass(WithText(c, class_pdfs, TRUE))
    /\ text_content = <<>>
    /\ pc = "build"

build_report ==
    /\ pc = "build"
    /\ text_content' =
           generate_course_text_file(course_info, classes_data, preferred_quality)
    /\ pc' = "built"
    /\ UNCHANGED <<session_vars, class_data, video_links, preferred_quality,
                   course_info, classes_data>>

NextReport == build_report

SpecReport == InitReport /\ [][NextReport]_vars

(***************************************************************************)
(* Properties of generate_course_text_file.                                *)
(***************************************************************************)
\* the classes of the payload, as <<topic index, class index>>
ClassPositions ==
    UNION {{<<t, c>> : c \in 1..Len(classes_data[t].classes)} :
              t \in 1..Len(classes_data)}

ClassOf(tc) == classes_data[tc[1]].classes[tc[2]]

\* the text is a URL with http:// or https:// and something after it
IsHttpUrl(url) ==
    \/ Len(url) > 7 /\ SubSeq(url, 1, 7) = Http
    \/ Len(url) > 8 /\ SubSeq(url, 1, 8) = Https

\* C11: every URL of a link or PDF line of the report, and every URL of the
\* links selected for a class of the payload, starts with http:// or
\* https://: no recording, class link or PDF with a missing, empty or other
\* URL is selected or printed.
C11_OnlyHttpUrls ==
    pc = "built" =>
        /\ \A i \in 1..Len(text_content) :
              text_content[i].kind \in {"link", "pdf"} =>
                  IsHttpUrl(text_content[i].url)
        /\ \A tc \in ClassPositions :
              LET links == get_video_links_by_preference(ClassOf(tc), preferred_quality)
              IN  \A k \in 1..Len(links) : IsHttpUrl(links[k].url)

\* C11: the report of a class with a recording and two PDFs, the first with
\* an ftp URL, has a link line and one PDF line, that of the second PDF
C11_Witness ==
    /\ pc = "built"
    /\ \E tc \in ClassPositions :
          /\ Len(ClassOf(tc).classPdf) = 2
          /\ ClassOf(tc).classPdf[1].url = PdfUrlOf(Ftp, 1)
          /\ ClassOf(tc).classPdf[2].url = PdfUrlOf(Https, 2)
    /\ \E i \in 1..Len(text_content) : text_content[i].kind = "link"
    /\ \E i \in 1..Len(text_content) :
          /\ text_content[i].kind = "pdf"
          /\ text_content[i].n = 1
          /\ text_content[i].url = PdfUrlOf(Https, 2)

\* the number of classes of the topics before topic t
RECURSIVE ClassesBefore(_)
ClassesBefore(t) ==
    IF t = 1 THEN 0
    ELSE ClassesBefore(t - 1) + Len(classes_data[t - 1].classes)

\* the positions in the report of the "Class {i}: {title}" lines
ClassLinePositions ==
    {i \in 1..Len(text_content) : text_content[i].kind = "class"}

\* the position of the k-th of them
ClassLineAt(k) ==
    CHOOSE i \in ClassLinePositions :
        Cardinality({j \in ClassLinePositions : j <= i}) = k

\* the lines of the report for a class of the payload: from its
\* "Class {i}: {title}" line to the line before the next such line or the
\* next "TOPIC:" line, or to the end
Block(tc) ==
    LET first == ClassLineAt(ClassesBefore(tc[1]) + tc[2])
        later == {j \in (first + 1)..Len(text_content) :
                     text_content[j].kind \in {"class", "topic"}}
        last == IF later = {} THEN Len(text_content)
                ELSE (CHOOSE j \in later : \A l \in later : j <= l) - 1
    IN  SubSeq(text_content, first, last)

\* the kinds of the lines of a block
Kinds(block) == {block[i].kind : i \in 1..Len(block)}

\* the block starts with the header of the class and ends with the
\* separator
HeaderAndSeparator(tc) ==
    LET block == Block(tc)
    IN  /\ Cardinality(ClassLinePositions) = Cardinality(ClassPositions)
        /\ Len(block) >= 5
        /\ block[1].kind = "class" /\ block[1].n = tc[2]
        /\ "teacher" \in Kinds(block)
        /\ block[Len(block) - 1] = Rule("=", 50)
        /\ block[Len(block)] = Blank

\* C13 (as claimed): the block of every class starts with the class header
\* and ends with the separator; it has no "PDF Materials:" line if the
\* class has no classPdf and no "Video Lectures:" line if the class has no
\* mp4Recordings.
C13_MissingListOmitsSection ==
    pc = "built" =>
        \A tc \in ClassPositions :
            /\ HeaderAndSeparator(tc)
            /\ ~ClassOf(tc).has_pdfs => "pdfs" \notin Kinds(Block(tc))
            /\ ~ClassOf(tc).has_recordings => "videos" \notin Kinds(Block(tc))

\* C13 (amended): ... no "PDF Materials:" line if the class has no
\* classPdf; if the class has no mp4Recordings, no "Video Lectures:" line
\* unless its class_link is an http(s) URL, and then the video section is
\* that one link, labelled "Main Link".
C13_MissingListOmitsSectionButMainLink ==
    pc = "built" =>
        \A tc \in ClassPositions :
            LET block == Block(tc)
                links == {i \in 1..Len(block) : block[i].kind = "link"}
            IN  /\ HeaderAndSeparator(tc)
                /\ ~ClassOf(tc).has_pdfs =>
                      /\ "pdfs" \notin Kinds(block)
                      /\ "pdf" \notin Kinds(block)
                /\ (~ClassOf(tc).has_recordings /\ ~IsHttpUrl(ClassOf(tc).class_link)) =>
                      /\ "videos" \notin Kinds(block)
                      /\ links = {}
                /\ (~ClassOf(tc).has_recordings /\ IsHttpUrl(ClassOf(tc).class_link)) =>
                      /\ "videos" \in Kinds(block)
                      /\ Cardinality(links) = 1
                      /\ \A i \in links :
                            /\ block[i].url = ClassOf(tc).class_link
                            /\ block[i].quality = MainLink

\* C13: a class without mp4Recordings and without classPdf, whose
\* class_link is a link, has a video section in its block, and no PDF
\* section
C13_Witness ==
    /\ pc = "built"
    /\ \E tc \in ClassPositions :
          /\ ~ClassOf(tc).has_recordings
          /\ ~ClassOf(tc).has_pdfs
          /\ IsHttpUrl(ClassOf(tc).class_link)
          /\ "videos" \in Kinds(Block(tc))
          /\ "pdfs" \notin Kinds(Block(tc))

\* the links selected for a class of the payload
LinksOf(tc) == get_video_links_by_preference(ClassOf(tc), preferred_quality)

\* the positions in a list of links of the preferred ones, or of the others
GroupOf(links, preferred_group) ==
    {k \in 1..Len(links) : links[k].is_preferred = preferred_group}

\* the i-th smallest element of a set of numbers
Nth(set, i) == CHOOSE k \in set : Cardinality({j \in set : j <= k}) = i

\* the line is "{indent}{mark} {url} (Quality: {quality})" for the link
PrintsLink(line, indent, link) ==
    /\ line.kind = "link"
    /\ line.n = indent
    /\ line.text = IF link.is_preferred THEN "check" ELSE "bullet"
    /\ line.url = link.url
    /\ line.quality = link.quality

\* the position in a block of its "Video Lectures:" line
VideosAt(block) == CHOOSE v \in 1..Len(block) : block[v].kind = "videos"

\* from position v the block is "Video Lectures:", the group "Preferred
\* Quality (X)" with the preferred links, an empty line, the group "Other
\* Available Qualities" with the other links and an empty line
TwoGroups(block, v, links) ==
    LET preferred == GroupOf(links, TRUE)
        others == GroupOf(links, FALSE)
        np == Cardinality(preferred)
        no == Cardinality(others)
    IN  /\ Len(block) >= v + np + no + 4
        /\ block[v + 1].kind = "preferred_header"
        /\ block[v + 1].quality = Upper(preferred_quality)
        /\ \A i \in 1..np :
              PrintsLink(block[v + 1 + i], 4, links[Nth(preferred, i)])
        /\ block[v + np + 2] = Blank
        /\ block[v + np + 3].kind = "other_header"
        /\ \A i \in 1..no :
              PrintsLink(block[v + np + 3 + i], 4, links[Nth(others, i)])
        /\ block[v + np + no + 4] = Blank
        /\ Cardinality({i \in 1..Len(block) : block[i].kind = "link"}) = np + no
        /\ Cardinality({i \in 1..Len(block) :
               block[i].kind \in {"preferred_header", "other_header"}}) = 2

\* from position v the block is "Video Lectures:", one line for each link
\* in the order of the list and an empty line, without the group headers
FlatList(block, v, links) ==
    /\ Len(block) >= v + Len(links) + 1
    /\ \A k \in 1..Len(links) : PrintsLink(block[v + k], 2, links[k])
    /\ block[v + Len(links) + 1] = Blank
    /\ Cardinality({i \in 1..Len(block) : block[i].kind = "link"}) = Len(links)
    /\ Kinds(block) \cap {"preferred_header", "other_header"} = {}

\* C17: the block of a class with a selected link has one "Video Lectures:"
\* line, followed by the two groups (the preferred links, then the others,
\* each in the order of the selected list) if the preference is not "all"
\* and a link is preferred, and by the flat list of all links in the order
\* of the selected list otherwise; the block of a class without a selected
\* link has no video section, has the PDF section exactly if a PDF has an
\* http(s) URL, and ends with the separator.
C17_TwoGroupsOrFlatList ==
    pc = "built" =>
        \A tc \in ClassPositions :
            LET block == Block(tc)
                links == LinksOf(tc)
            IN  /\ links # <<>> =>
                      /\ Cardinality({i \in 1..Len(block) :
                             block[i].kind = "videos"}) = 1
                      /\ IF /\ preferred_quality # QAll
                            /\ GroupOf(links, TRUE) # {}
                         THEN TwoGroups(block, VideosAt(block), links)
                         ELSE FlatList(block, VideosAt(block), links)
                /\ links = <<>> =>
                      /\ Kinds(block) \cap {"videos", "link", "preferred_header",
                                            "other_header"} = {}
                      /\ "pdfs" \in Kinds(block) <=>
                            \E i \in 1..Len(ClassOf(tc).classPdf) :
                                IsHttpUrl(ClassOf(tc).classPdf[i].url)
                /\ HeaderAndSeparator(tc)

\* C17: for "720p" the block of a class has the two groups, with one link
\* in the first and two in the second
C17_Witness ==
    /\ pc = "built"
    /\ preferred_quality = Q720p
    /\ \E tc \in ClassPositions :
          /\ Cardinality(GroupOf(LinksOf(tc), TRUE)) = 1
          /\ Cardinality(GroupOf(LinksOf(tc), FALSE)) = 2
          /\ LET block == Block(tc)
                 v == VideosAt(block)
             IN  /\ block[v + 1].kind = "preferred_header"
                 /\ block[v + 2].kind = "link" /\ block[v + 2].text = "check"
                 /\ block[v + 4].kind = "other_header"
                 /\ block[v + 5].kind = "link" /\ block[v + 5].text = "bullet"
                 /\ block[v + 6].kind = "link" /\ block[v + 6].text = "bullet"

\* C17: for "4k" no link of a class is preferred and its three links are
\* printed as a flat list; and a class without a valid link has a PDF
\* section
C17_FlatListReached ==
    /\ pc = "built"
    /\ preferred_quality = Q4k
    /\ \E tc \in ClassPositions :
          /\ Len(LinksOf(tc)) = 3
          /\ "link" \in Kinds(Block(tc))
          /\ "preferred_header" \notin Kinds(Block(tc))

C17_NoLinksWithPdfReached ==
    /\ pc = "built"
    /\ \E tc \in ClassPositions :
          /\ LinksOf(tc) = <<>>
          /\ "pdfs" \in Kinds(Block(tc))

\* the positions of the recordings of a class whose url is a link
ValidRecordingsOf(class) ==
    {i \in 1..Len(class.mp4Recordings) : IsHttpUrl(class.mp4Recordings[i].url)}

\* C20: the links selected for a class are its class_link, if an http(s)
\* URL, once, and each of its recordings with an http(s) URL once, with
\* the quality of the recording, and nothing else; and in a block with the
\* two groups every selected link is printed on one line, which is in one
\* of the two groups.
C20_SelectedIsPermutation ==
    pc = "built" =>
        \A tc \in ClassPositions :
            LET class == ClassOf(tc)
                links == LinksOf(tc)
                block == Block(tc)
                main == IF IsHttpUrl(class.class_link) THEN 1 ELSE 0
                recordings == ValidRecordingsOf(class)
            IN  /\ Len(links) = main + Cardinality(recordings)
                /\ Cardinality({k \in 1..Len(links) :
                       /\ links[k].url = class.class_link
                       /\ links[k].quality = MainLink}) = main
                /\ \A i \in recordings :
                      Cardinality({k \in 1..Len(links) :
                          /\ links[k].url = class.mp4Recordings[i].url
                          /\ links[k].quality =
                                 Get(class.mp4Recordings[i].quality, Unknown)}) = 1
                /\ "preferred_header" \in Kinds(block) =>
                      LET first == CHOOSE i \in 1..Len(block) :
                                       block[i].kind = "preferred_header"
                          second == CHOOSE i \in 1..Len(block) :
                                        block[i].kind = "other_header"
                      IN  /\ first < second
                          /\ \A k \in 1..Len(links) :
                                Cardinality({i \in 1..Len(block) :
                                    /\ block[i].kind = "link"
                                    /\ i > first /\ i # second
                                    /\ block[i].url = links[k].url
                                    /\ block[i].quality = links[k].quality
                                    /\ (i < second) = links[k].is_preferred}) = 1
                          /\ Cardinality({i \in 1..Len(block) :
                                 block[i].kind = "link"}) = Len(links)

\* C20: for "720p" the class_link, a "720p" recording and two "480p"
\* recordings, which have the same key, are all selected and printed in
\* the two groups
C20_Witness ==
    /\ pc = "built"
    /\ preferred_quality = Q720p
    /\ \E tc \in ClassPositions :
          LET links == LinksOf(tc)
          IN  /\ Len(links) = 4
              /\ links[1].is_preferred
              /\ links[2].quality = Q480p /\ links[3].quality = Q480p
              /\ links[4].quality = MainLink
              /\ "other_header" \in Kinds(Block(tc))
              /\ Cardinality({i \in 1..Len(Block(tc)) :
                     Block(tc)[i].kind = "link"}) = 4

(***************************************************************************)
(* Properties of the extraction and of the titles.                         *)
(***************************************************************************)
\* C12 (as claimed): an extraction whose payload has state 200 and the
\* container data delivers a report, whatever is missing inside data; it
\* fails only when data is absent.
C12_FailsOnlyWithoutData ==
    [][\A u \in Users, resp \in DetailResponses :
          (/\ get_course_command(u, resp)
           /\ out'.fetched # Absent
           /\ resp.kind = "ok" /\ resp.state = 200) =>
              (out'.document <=> resp.has_data)]_vars

\* the title of course i of a list, "Batch {i}" if it has none
PositionalTitle(courses, i) ==
    IF courses[i].title = Absent THEN "Batch " \o Decimal(i) ELSE courses[i].title

\* C15 (as claimed, for courses): a course without title is "Batch {i}",
\* i its position in the catalog, on its button of the catalog listing and
\* as the title recorded by its selection, which is the title of the
\* filename and of the caption.
C15_PositionalDefaultTitles ==
    [][/\ (out'.op = "batches" /\ out'.reply = "keyboard") =>
             \A i \in 1..Len(out'.keyboard) :
                 out'.keyboard[i].course_title =
                     PositionalTitle(user_data'[out'.user].available_courses, i)
       /\ \A u \in Users, data \in CourseData, resp \in DetailResponses :
             (/\ course_callback(u, data, resp)
              /\ data.isint
              /\ data.n \in 0..(Len(CoursesOf(u)) - 1)) =>
                 /\ user_data'[u].selected_course_title =
                        PositionalTitle(CoursesOf(u), data.n + 1)
                 /\ out'.title = PositionalTitle(CoursesOf(u), data.n + 1)]_vars

\* C15 (for topics and classes): in the report a topic without topicName
\* is "Topic {i}" and a class without title is "Class {i}", i its position
\* in the payload and in its topic.
C15_TopicAndClassDefaults ==
    pc = "built" =>
        /\ \A t \in 1..Len(classes_data) :
              LET topic_lines == {i \in 1..Len(text_content) :
                                     text_content[i].kind = "topic"}
                  line == CHOOSE i \in topic_lines :
                              Cardinality({j \in topic_lines : j <= i}) = t
              IN  /\ Cardinality(topic_lines) = Len(classes_data)
                  /\ text_content[line].text =
                         IF classes_data[t].topicName = Absent
                         THEN "Topic " \o Decimal(t)
                         ELSE classes_data[t].topicName
        /\ \A tc \in ClassPositions :
              /\ Block(tc)[1].n = tc[2]
              /\ Block(tc)[1].text =
                     IF ClassOf(tc).title = Absent
                     THEN "Class " \o Decimal(tc[2])
                     ELSE ClassOf(tc).title

\* C18: button n of a keyboard carries the internal index n-1; a user's
\* catalog is the list of the user's latest successful batches_command,
\* since that handler stores the list it got and no other step changes the
\* user's catalog; and a selection of an index n-1 in 0 .. N-1 records the
\* id and the title of entry n of this catalog (None for a missing id,
\* "Unknown Course" for a missing title) and fetches that id.
C18_SelectionRecordsNthEntry ==
    [][/\ \A i \in 1..Len(out'.keyboard) :
             out'.keyboard[i].n = i /\ out'.keyboard[i].course_index = i - 1
       /\ (out'.op = "batches" /\ out'.reply = "keyboard") =>
             /\ user_data'[out'.user].available_courses \in Catalogs
             /\ Len(out'.keyboard) = Len(user_data'[out'.user].available_courses)
             /\ \E resp \in CatalogResponses :
                   /\ resp.data = user_data'[out'.user].available_courses
                   /\ batches_command(out'.user, resp)
       /\ \A u \in Users :
             (out'.op = "batches" /\ out'.user = u /\ out'.reply = "keyboard")
             \/ user_data'[u].available_courses = user_data[u].available_courses
       /\ \A n \in 1..Len(user_data[out'.user].available_courses) :
             (out'.op = "course" /\ out'.course_index = <<n - 1>>) =>
                 LET u == out'.user
                     entry == user_data[u].available_courses[n]
                 IN  /\ user_data'[u].selected_course_id =
                            IF entry.id = Absent THEN PyNone ELSE entry.id
                     /\ user_data'[u].selected_course_title =
                            IF entry.title = Absent THEN "Unknown Course"
                            ELSE entry.title
                     /\ out'.fetched = user_data'[u].selected_course_id
                     /\ out'.title = user_data'[u].selected_course_title]_vars

\* C18: a user selected entry 2 of the user's catalog while the list of the
\* bot is the catalog that another user loaded later
C18_Witness ==
    /\ out.op = "course"
    /\ out.course_index = <<1>>
    /\ Len(user_data[out.user].available_courses) = 2
    /\ user_data[out.user].available_courses[2].id # Absent
    /\ user_data[out.user].selected_course_id =
           user_data[out.user].available_courses[2].id
    /\ out.fetched = user_data[out.user].selected_course_id
    /\ available_courses # user_data[out.user].available_courses

\* C19 (as claimed): a get_course_command of a user without a selected
\* course is rejected, fetches nothing, delivers nothing and changes no
\* state; one of a user with a selected course, whatever the recorded id,
\* is not rejected and fetches the recorded id.
C19_CarriedOutIffSelected ==
    [][out'.op = "get_course" =>
          /\ ~CourseSelected(out'.user) =>
                /\ out'.reply = "no_course_selected"
                /\ out'.fetched = Absent
                /\ ~out'.document
                /\ UNCHANGED <<user_preferences, available_courses, user_data>>
          /\ CourseSelected(out'.user) =>
                /\ out'.reply # "no_course_selected"
                /\ out'.fetched = user_data[out'.user].selected_course_id]_vars

\* an extraction was started by the last handler and delivered no report
ExtractionFailed(sent) == sent.fetched # Absent /\ ~sent.document

\* a step with a failed extraction delivers nothing and leaves the
\* preferences and the sessions as they were when fetch_course_data was
\* called: as before the step for a get_course_command, and with the
\* selection that course_callback had just stored for a course_callback
FailedExtractionKeepsState ==
    ExtractionFailed(out') =>
        /\ out'.reply # "file_generated"
        /\ user_preferences' = user_preferences
        /\ available_courses' = available_courses
        /\ out'.op = "get_course" => user_data' = user_data
        /\ out'.op = "course" =>
              user_data' = [user_data EXCEPT
                               ![out'.user].selected_course_id = out'.fetched,
                               ![out'.user].selected_course_title = out'.title]
        /\ user_data'[out'.user].selected_course_id = out'.fetched
        /\ user_data'[out'.user].selected_course_id # Absent

\* C21 (as claimed): an extraction that fails delivers no report and leaves
\* the preferences and the user's session as they were when it started, the
\* selected course staying selected; and a get_course_command of the user
\* that follows it is not rejected and fetches the same course.
C21_FailedExtractionRetries ==
    [][/\ FailedExtractionKeepsState
       /\ (/\ ExtractionFailed(out)
           /\ out'.op = "get_course"
           /\ out'.user = out.user) =>
              /\ out'.reply # "no_course_selected"
              /\ out'.fetched = out.fetched]_vars

\* C21 (without the courses whose recorded id is None): the same, the
\* get_course_command that follows fetching the same course if the id of
\* the course is a non-empty text.
C21_FailedExtractionRetriesTruthy ==
    [][/\ FailedExtractionKeepsState
       /\ (/\ ExtractionFailed(out)
           /\ Truthy(out.fetched)
           /\ out'.op = "get_course"
           /\ out'.user = out.user) =>
              /\ out'.reply # "no_course_selected"
              /\ out'.fetched = out.fetched]_vars

\* C21: a get_course_command got a payload without class data, delivered
\* nothing, and the user's course is still selected
C21_FailedReached ==
    /\ out.op = "get_course"
    /\ out.reply = "no_class_data"
    /\ user_data[out.user].selected_course_id = out.fetched

====
